---- MODULE Spec2Model ----
(***************************************************************************)
(* Recruiting orchestration engine of agent-starter-kit: the matching loop *)
(* (check_jobs) and the reply-classification loop                          *)
(* (check_candidates_replies) of agent.py over the persisted job and       *)
(* candidate collections and the in-memory state mirror; the JobStore      *)
(* mutator; the classification-to-availability rule; and the lazy session  *)
(* initialisation of MCPClient.                                            *)
(***************************************************************************)
EXTENDS Integers, Sequences, FiniteSets, TLC

\* ------------------------------------------------------------------ bounds

\* ticks the two loops may start in one run, together
MaxTicks == 3
\* longest list the propose-matches agent returns
MaxProposed == 2
\* longest list the inbound transport returns
MaxFetch == 2
\* calls each caller of the shared MCPClient makes
MaxCalls == 2
\* fragments a classification token is put together from
MaxParts == 2
\* update_job_availability calls in one run of the job store
MaxJobCalls == 3
\* process_query calls of one client
MaxQueries == 2
\* tool calls one completion asks for
MaxToolCalls == 2
\* external calls one tick awaits
MaxAwaits == 2
\* writes of people.json in one run of its writers
MaxWrites == 3
\* emails the people server stores
MaxEmails == 3
\* characters of a text handed to the parser
MaxTextLen == 3

\* ------------------------------------------------------------------ values

\* Python None where a candidate id is expected; candidate ids start at 1
NoCandidate == 0

\* job_id of a candidate record: the key may be absent, or hold None
NoKey == "NoKey"
None == "None"

CandidateIds == {1, 2}
\* a candidate id no record of the collection carries
GhostIds == {9}
JobIds == {"J1", "J2"}

RECURSIVE SeqsUpTo(_, _)
SeqsUpTo(S, n) ==
  IF n = 0 THEN {<<>>}
  ELSE LET shorter == SeqsUpTo(S, n - 1)
       IN  shorter \cup {Append(s, x) : s \in {t \in shorter : Len(t) = n - 1}, x \in S}

InSeq(x, s) == \E i \in 1..Len(s) : s[i] = x

\* ------------------------------------------------------------------ text

\* characters of the classification tokens; a string is a sequence of them
W_interested == <<"i","n","t","e","r","e","s","t","e","d">>
W_Interested == <<"I","n","t","e","r","e","s","t","e","d">>
W_INTERESTED == <<"I","N","T","E","R","E","S","T","E","D">>
W_rejected == <<"r","e","j","e","c","t","e","d">>
W_REJECTED == <<"R","E","J","E","C","T","E","D">>
W_Not_sure == <<"N","o","t"," ","s","u","r","e">>
W_un == <<"u","n">>
W_inter == <<"i","n","t","e","r">>
W_ested == <<"e","s","t","e","d">>
W_bang == <<"!">>
W_not_clear == <<"n","o","t"," ","c","l","e","a","r">>
W_not_interested == <<"n","o","t"," ">> \o W_interested

LowerChar(c) ==
  CASE c = "I" -> "i" [] c = "N" -> "n" [] c = "T" -> "t" [] c = "E" -> "e"
    [] c = "R" -> "r" [] c = "S" -> "s" [] c = "D" -> "d" [] c = "J" -> "j"
    [] c = "C" -> "c" [] OTHER -> c

\* str.lower()
Lower(s) == [i \in 1..Len(s) |-> LowerChar(s[i])]

\* needle in hay
Contains(hay, needle) ==
  \E k \in 0..(Len(hay) - Len(needle)) :
     \A i \in 1..Len(needle) : hay[k + i] = needle[i]

\* the rule without lower(): a case-sensitive test
IsAvailable_CaseSensitive(classification) == Contains(classification, W_interested)

\* available = "interested" in classification.lower()
IsAvailable(classification) == Contains(Lower(classification), W_interested)

\* ------------------------------------------------------------------ stores

\* index of the first record of data whose id field equals value, 0 if none
RECURSIVE FirstIndex(_, _, _)
FirstIndex(ids, value, i) ==
  IF i > Len(ids) THEN 0
  ELSE IF ids[i] = value THEN i
  ELSE FirstIndex(ids, value, i + 1)

JobIndex(jobs, job_id) ==
  FirstIndex([i \in 1..Len(jobs) |-> jobs[i].job_id], job_id, 1)

CandidateIndex(cands, candidate_id) ==
  FirstIndex([i \in 1..Len(cands) |-> cands[i].candidate_id], candidate_id, 1)

CandidateIndexByName(cands, name) ==
  FirstIndex([i \in 1..Len(cands) |-> cands[i].name], name, 1)

\* Python truthiness of a candidate id
Truthy(candidate_id) == candidate_id # NoCandidate

\* the mutator with an unfilled branch that takes out the one candidate only
\* a JobStore whose constructor sets a logger
JobStoreHasLogger_Present == TRUE

\* JobStore.__init__ sets no logger and JsonListStore has none: self.logger, the
\* first expression of update_job_availability, raises AttributeError before
\* anything is read or written
JobStoreHasLogger == FALSE

\* lines 27-53 of JobStore.update_job_availability on the persisted job list:
\* what the method does once it is past the logger
UpdateJobAvailability(jobs, job_id, filled, candidate_id) ==
  LET i == JobIndex(jobs, job_id)
  IN  IF i = 0 THEN jobs
      ELSE [jobs EXCEPT ![i] =
             [@ EXCEPT !.status = IF filled THEN "filled" ELSE "unfilled",
                       !.candidate_ids =
                          IF ~filled THEN <<>>
                          ELSE IF Truthy(candidate_id) /\ ~InSeq(candidate_id, @)
                               THEN Append(@, candidate_id)
                               ELSE @]]

\* the status update that leaves the candidate's job_id as it was
UpdateCandidateStatus_KeepJob(cands, candidate_id, status, job_id) ==
  LET i == CandidateIndex(cands, candidate_id)
  IN  IF i = 0 THEN cands
      ELSE [cands EXCEPT ![i] = [@ EXCEPT !.status = status]]

\* CandidateStore.update_candidate_status on the persisted candidate list
UpdateCandidateStatus(cands, candidate_id, status, job_id) ==
  LET i == CandidateIndex(cands, candidate_id)
  IN  IF i = 0 THEN cands
      ELSE [cands EXCEPT ![i] = [@ EXCEPT !.status = status, !.job_id = job_id]]

\* CandidateStore.add_message on the persisted candidate list
AddMessage(cands, candidate_id, message) ==
  LET i == CandidateIndex(cands, candidate_id)
  IN  IF i = 0 THEN cands
      ELSE [cands EXCEPT ![i] = [@ EXCEPT !.messages = Append(@, message)]]

\* JsonListStore.get_list(): the collection as persisted at the moment of the read
GetList(file) == file

\* ------------------------------------------------------------------ state

VARIABLES
  jobsFile,        \* jobs.json
  candFile,        \* people.json
  stateJobs,       \* state["jobs"]
  stateCandidates, \* state["candidates"]
  currentJob,      \* state["currentJob"]
  currentMatches,  \* state["currentMatches"]
  matches,         \* state["matches"]
  replies,         \* state["replies"]
  sent,            \* POSTs issued to /send-email, oldest first
  mpc,             \* where the matching loop stands
  mticks,          \* ticks of check_jobs started
  mresult,         \* how the last tick of check_jobs ended
  proposed,        \* the list find_candidates_agent returned
  mi,              \* position of check_jobs in proposed
  mcand,           \* candidate_id of the candidate check_jobs resolved
  n_sent,          \* n_sent of check_jobs
  rpc,             \* where the reply loop stands
  rticks,          \* ticks of check_candidates_replies started
  rresult,         \* how the last tick of check_candidates_replies ended
  inbox,           \* the list read_emails returned
  ri,              \* position of check_candidates_replies in inbox
  rjob,            \* job_id read from the resolved candidate
  classified,      \* email ids handed to classify_email_agent, oldest first
  replayed,        \* the running reply tick fetched the list of the tick before it
  lenBefore        \* len(state["replies"]) when the running reply tick fetched

mirrorVars == <<stateJobs, stateCandidates, currentJob, currentMatches, matches, replies>>
matchVars == <<mpc, mticks, mresult, proposed, mi, mcand, n_sent>>
replyVars == <<rpc, rticks, rresult, inbox, ri, rjob, classified, replayed, lenBefore>>
orchVars == <<jobsFile, candFile, mirrorVars, sent, matchVars, replyVars>>

\* jobs.json as agent.py leaves it at import: every job unfilled, no candidates
SeedJob(job_id) == [job_id |-> job_id, status |-> "unfilled", candidate_ids |-> <<>>]

JobSeeds == {<<>>, <<SeedJob("J1"), SeedJob("J2")>>}

\* people.json as agent.py leaves it at import (status and messages reset, job_id
\* left as it was): candidate 1 as the people server creates records (no job_id
\* key), candidate 2 still carrying the job_id of an earlier run
SeedCandidates ==
  << [candidate_id |-> 1, name |-> "Ann", status |-> "available",
      job_id |-> NoKey, messages |-> <<>>],
     [candidate_id |-> 2, name |-> "Bob", status |-> "available",
      job_id |-> "J1", messages |-> <<>>] >>

OrchInit ==
  /\ jobsFile \in JobSeeds
  /\ candFile = SeedCandidates
  /\ stateJobs = jobsFile
  /\ stateCandidates = candFile
  /\ currentJob = None
  /\ currentMatches = <<>>
  /\ matches = <<>>
  /\ replies = <<>>
  /\ sent = <<>>
  /\ mpc = "idle"
  /\ mticks = 0
  /\ mresult = "none"
  /\ proposed = <<>>
  /\ mi = 0
  /\ mcand = NoCandidate
  /\ n_sent = 0
  /\ rpc = "idle"
  /\ rticks = 0
  /\ rresult = "none"
  /\ inbox = <<>>
  /\ ri = 0
  /\ rjob = None
  /\ classified = <<>>
  /\ replayed = FALSE
  /\ lenBefore = 0

\* ------------------------------------------------------------------ matching loop

\* the names a proposed match can carry: Zed is no candidate's name
Names == {"Ann", "Zed"}

\* what find_candidates_agent can return: the names of the proposed matches, in
\* order; the empty list also when the agent fails
ProposedLists == SeqsUpTo(Names, MaxProposed)

\* first position from `from` on whose name py_.find resolves in cands; past the
\* end if there is none (the for loop of check_jobs up to its next await)
RECURSIVE NextResolved(_, _, _)
NextResolved(list, cands, from) ==
  IF from > Len(list) THEN from
  ELSE IF CandidateIndexByName(cands, list[from]) # 0 THEN from
  ELSE NextResolved(list, cands, from + 1)

\* check_jobs from the head of its for loop to create_email_agent or to its end
MatchAdvance(list, cands, from) ==
  LET k == NextResolved(list, cands, from)
  IN  IF k > Len(list)
      THEN /\ mpc' = "idle"
           /\ mresult' = "returned"
           /\ mi' = k
           /\ UNCHANGED <<mcand, currentMatches, matches>>
      ELSE LET match == [name |-> list[k], sent_email |-> "unset"]
           IN  /\ mpc' = "drafting"
               /\ mresult' = "running"
               /\ mi' = k
               /\ mcand' = cands[CandidateIndexByName(cands, list[k])].candidate_id
               /\ currentMatches' = <<match>> \o currentMatches
               /\ matches' = <<match>> \o matches

\* py_.sample(state["jobs"]) on an empty list: random.choice raises IndexError,
\* which leaves check_jobs before anything is assigned
CheckJobsEmpty ==
  /\ mpc = "idle"
  /\ mticks + rticks < MaxTicks
  /\ Len(stateJobs) = 0
  /\ mticks' = mticks + 1
  /\ mresult' = "IndexError"
  /\ UNCHANGED <<jobsFile, candFile, mirrorVars, sent, mpc, proposed, mi, mcand, n_sent,
                 replyVars>>

\* check_jobs up to the await of find_candidates_agent
CheckJobsStart ==
  /\ mpc = "idle"
  /\ mticks + rticks < MaxTicks
  /\ \E j \in 1..Len(stateJobs) :
        /\ currentJob' = stateJobs[j].job_id
        /\ currentMatches' = <<>>
        /\ n_sent' = 0
        /\ mticks' = mticks + 1
        /\ mresult' = "running"
        /\ mpc' = "proposing"
  /\ UNCHANGED <<jobsFile, candFile, stateJobs, stateCandidates, matches, replies, sent,
                 proposed, mi, mcand, replyVars>>

\* find_candidates_agent returns; check_jobs runs on to create_email_agent or its end
FindCandidatesReturn ==
  /\ mpc = "proposing"
  /\ \E list \in ProposedLists :
        /\ proposed' = list
        /\ MatchAdvance(list, stateCandidates, 1)
  /\ UNCHANGED <<jobsFile, candFile, stateJobs, stateCandidates, currentJob, replies, sent,
                 mticks, n_sent, replyVars>>

\* match["sent_email"] = email_data on the match check_jobs last inserted
SetSentEmail(list, draft) == [list EXCEPT ![1] = [@ EXCEPT !.sent_email = draft]]

RecordOutreach_SkipEmpty(cands, candidate_id, draft, job_id) ==
  IF draft = "empty" THEN cands
  ELSE UpdateCandidateStatus(AddMessage(cands, candidate_id, draft),
                             candidate_id, "requested", job_id)

\* candidate_store.add_message then update_candidate_status of check_jobs
RecordOutreach(cands, candidate_id, draft, job_id) ==
  UpdateCandidateStatus(AddMessage(cands, candidate_id, draft),
                        candidate_id, "requested", job_id)

\* create_email_agent returns (a drafted payload, or {} when it failed);
\* check_jobs records the outreach and issues the POST of send_email
CreateEmailReturn ==
  /\ mpc = "drafting"
  /\ \E draft \in {"draft", "empty"} :
        /\ currentMatches' = SetSentEmail(currentMatches, draft)
        /\ matches' = SetSentEmail(matches, draft)
        /\ candFile' = RecordOutreach(candFile, mcand, draft, currentJob)
  /\ sent' = Append(sent, [candidate_id |-> mcand, job_id |-> currentJob])
  /\ mpc' = "sending"
  /\ UNCHANGED <<jobsFile, stateJobs, stateCandidates, currentJob, replies,
                 mticks, mresult, proposed, mi, mcand, n_sent, replyVars>>

\* send_email returns (its result is not looked at); check_jobs refreshes the
\* mirror and runs on to the next create_email_agent or to its end
SendEmailReturn ==
  /\ mpc = "sending"
  /\ stateCandidates' = GetList(candFile)
  /\ n_sent' = n_sent + 1
  /\ MatchAdvance(proposed, stateCandidates', mi + 1)
  /\ UNCHANGED <<jobsFile, candFile, stateJobs, currentJob, replies, sent, mticks, proposed,
                 rpc, rticks, rresult, inbox, ri, rjob, classified, replayed, lenBefore>>

\* ------------------------------------------------------------------ reply loop

Email(email_id, candidate_id, text) ==
  [email_id |-> email_id, candidate_id |-> candidate_id, text |-> text]

\* the email records the inbound transport can return: text says whether the
\* record carries response text; email 1 is seen before and after its answer
\* arrives, email 4 names a candidate no record carries
InboundPool ==
  {Email(1, 1, TRUE), Email(1, 1, FALSE), Email(2, 2, TRUE), Email(3, 1, TRUE)}
    \cup {Email(4, g, TRUE) : g \in GhostIds}

\* what read_emails can return; the empty list also when the fetch fails
InboundLists == SeqsUpTo(InboundPool, MaxFetch)

\* the classification tokens classify_email_agent hands back
AgentTokens == {W_interested, W_rejected, W_not_clear}

\* the lookup that never finds the email in the reply log
Processed_NoDedup(reps, email_id) == FALSE

\* py_.find(state["replies"], ...) of check_candidates_replies
Processed(reps, email_id) == \E i \in 1..Len(reps) : reps[i].email_id = email_id

\* first position from `from` on that check_candidates_replies does not skip:
\* not in the reply log, and carrying response text
RECURSIVE NextUnprocessed(_, _, _)
NextUnprocessed(list, reps, from) ==
  IF from > Len(list) THEN from
  ELSE IF ~Processed(reps, list[from].email_id) /\ list[from].text THEN from
  ELSE NextUnprocessed(list, reps, from + 1)

\* check_candidates_replies from the head of its for loop to
\* classify_email_agent, to its end, or to the exception of candidate["job_id"]
ReplyAdvance(list, reps, cands, from) ==
  LET k == NextUnprocessed(list, reps, from)
      c == IF k > Len(list) THEN 0 ELSE CandidateIndex(cands, list[k].candidate_id)
  IN  /\ ri' = k
      /\ IF k > Len(list)
         THEN /\ rpc' = "idle"
              /\ rresult' = "returned"
              /\ UNCHANGED <<rjob, classified>>
         ELSE IF c = 0
         THEN /\ rpc' = "idle"
              /\ rresult' = "TypeError"
              /\ UNCHANGED <<rjob, classified>>
         ELSE IF cands[c].job_id = NoKey
         THEN /\ rpc' = "idle"
              /\ rresult' = "KeyError"
              /\ UNCHANGED <<rjob, classified>>
         ELSE /\ rpc' = "classifying"
              /\ rresult' = "running"
              /\ rjob' = cands[c].job_id
              /\ classified' = Append(classified, list[k].email_id)

\* check_candidates_replies up to the await of read_emails
CheckRepliesStart ==
  /\ rpc = "idle"
  /\ mticks + rticks < MaxTicks
  /\ rticks' = rticks + 1
  /\ rresult' = "running"
  /\ rpc' = "fetching"
  /\ UNCHANGED <<jobsFile, candFile, mirrorVars, sent, matchVars, inbox, ri, rjob,
                 classified, replayed, lenBefore>>

\* read_emails returns; check_candidates_replies runs on to classify_email_agent,
\* to its end or to an exception
ReadEmailsReturn ==
  /\ rpc = "fetching"
  /\ \E list \in InboundLists :
        /\ inbox' = list
        /\ replayed' = (rticks >= 2 /\ list = inbox)
        /\ ReplyAdvance(list, replies, stateCandidates, 1)
  /\ lenBefore' = Len(replies)
  /\ UNCHANGED <<jobsFile, candFile, mirrorVars, sent, matchVars, rticks>>

\* the entry check_candidates_replies inserts at the head of state["replies"]
Reply(email, classification, job_id) ==
  [email_id |-> email.email_id, candidate_id |-> email.candidate_id,
   classification |-> classification, jobId |-> job_id]

\* classify_email_agent returns; check_candidates_replies logs the reply and
\* calls update_job_availability. When that call raises, the except clause of
\* line 226 takes over: the job, the candidate's messages and the mirror stay as
\* they were. Otherwise the job's availability is set, the email is stored with
\* the candidate and the mirror is refreshed. Either way the tick runs on to the
\* next classify_email_agent, to its end or to an exception
ClassifyReturn ==
  /\ rpc = "classifying"
  /\ \E classification \in AgentTokens :
        LET email == inbox[ri]
        IN  /\ replies' = <<Reply(email, classification, rjob)>> \o replies
            /\ IF JobStoreHasLogger
               THEN /\ jobsFile' = UpdateJobAvailability(jobsFile, rjob,
                                                         IsAvailable(classification),
                                                         email.candidate_id)
                    /\ stateJobs' = GetList(jobsFile')
                    /\ candFile' = AddMessage(candFile, email.candidate_id, "email")
                    /\ stateCandidates' = GetList(candFile')
               ELSE UNCHANGED <<jobsFile, stateJobs, candFile, stateCandidates>>
            /\ ReplyAdvance(inbox, replies', stateCandidates', ri + 1)
  /\ UNCHANGED <<currentJob, currentMatches, matches, sent, matchVars, rticks, inbox,
                 replayed, lenBefore>>

\* ------------------------------------------------------------------ job store alone

VARIABLES
  jcalls,    \* calls of update_job_availability made
  lastCall   \* the arguments of the last one, and what it returned

jobCallVars == <<jcalls, lastCall>>

NoCall == [job_id |-> None, filled |-> FALSE, candidate_id |-> NoCandidate,
           returned |-> "nothing"]

JobCallInit ==
  /\ jcalls = 0
  /\ lastCall = NoCall

\* the job ids a caller can pass: J9 is no job's id
CallJobIds == JobIds \cup {"J9"}

\* the candidate ids a caller can pass, the default None among them
CallCandidateIds == CandidateIds \cup {NoCandidate}

\* one call of JobStore.update_job_availability: what it returned, or the
\* exception it raised
UpdateJobAvailabilityCall ==
  /\ jcalls < MaxJobCalls
  /\ \E job_id \in CallJobIds, filled \in BOOLEAN, candidate_id \in CallCandidateIds :
        /\ jobsFile' = IF JobStoreHasLogger
                       THEN UpdateJobAvailability(jobsFile, job_id, filled, candidate_id)
                       ELSE jobsFile
        /\ lastCall' = [job_id |-> job_id, filled |-> filled,
                        candidate_id |-> candidate_id,
                        returned |-> IF ~JobStoreHasLogger THEN "AttributeError"
                                     ELSE IF JobIndex(jobsFile, job_id) # 0 THEN "True"
                                     ELSE "False"]
  /\ jcalls' = jcalls + 1
  /\ UNCHANGED <<candFile, mirrorVars, sent, matchVars, replyVars>>

\* ------------------------------------------------------------------ classification rule alone

VARIABLES
  token,      \* the classification token
  nparts,     \* fragments it was put together from
  evaluated,  \* line 220 has run on the token
  available   \* available of check_candidates_replies

tokenVars == <<token, nparts, evaluated, available>>

TokenInit ==
  /\ token = <<>>
  /\ nparts = 0
  /\ evaluated = FALSE
  /\ available = FALSE

Fragments ==
  {W_interested, W_Interested, W_INTERESTED, W_REJECTED, W_Not_sure,
   W_un, W_inter, W_ested, W_bang}

\* the token grows by one fragment
ExtendToken ==
  /\ ~evaluated
  /\ nparts < MaxParts
  /\ \E f \in Fragments : token' = token \o f
  /\ nparts' = nparts + 1
  /\ UNCHANGED <<evaluated, available>>

\* line 220 of check_candidates_replies on the token
EvaluateAvailable ==
  /\ ~evaluated
  /\ evaluated' = TRUE
  /\ available' = IsAvailable(token)
  /\ UNCHANGED <<token, nparts>>

\* ------------------------------------------------------------------ MCPClient session

VARIABLES
  is_async_init,  \* MCPClient.is_async_init
  sessions,       \* ClientSession objects assigned to MCPClient.session so far
  connects,       \* runs of connect_to_sse_server started so far
  cpc,            \* where each caller of the client stands
  ccalls          \* calls each caller has finished

mcpVars == <<is_async_init, sessions, connects, cpc, ccalls>>

\* the coroutines that call process_query or get_tools on the shared client
Callers == {"check_jobs", "check_candidates_replies", "tools_route"}

McpInit ==
  /\ is_async_init = FALSE
  /\ sessions = 0
  /\ connects = 0
  /\ cpc = [c \in Callers |-> "idle"]
  /\ ccalls = [c \in Callers |-> 0]

\* async_init_prehook: check_async_init returns at once when the flag is set,
\* else connect_to_sse_server starts and awaits the SSE streams
CallStart(c) ==
  /\ cpc[c] = "idle"
  /\ ccalls[c] < MaxCalls
  /\ IF is_async_init
     THEN /\ cpc' = [cpc EXCEPT ![c] = "method"]
          /\ UNCHANGED connects
     ELSE /\ cpc' = [cpc EXCEPT ![c] = "streams"]
          /\ connects' = connects + 1
  /\ UNCHANGED <<is_async_init, sessions, ccalls>>

\* sse_client's __aenter__ returns the streams; connect_to_sse_server awaits the
\* ClientSession's __aenter__
StreamsEntered(c) ==
  /\ cpc[c] = "streams"
  /\ cpc' = [cpc EXCEPT ![c] = "session"]
  /\ UNCHANGED <<is_async_init, sessions, connects, ccalls>>

\* sse_client's __aenter__ raises: the error leaves the call
StreamsFailed(c) ==
  /\ cpc[c] = "streams"
  /\ cpc' = [cpc EXCEPT ![c] = "idle"]
  /\ ccalls' = [ccalls EXCEPT ![c] = @ + 1]
  /\ UNCHANGED <<is_async_init, sessions, connects>>

\* self.session is assigned; connect_to_sse_server awaits session.initialize()
SessionEntered(c) ==
  /\ cpc[c] = "session"
  /\ sessions' = sessions + 1
  /\ cpc' = [cpc EXCEPT ![c] = "initialize"]
  /\ UNCHANGED <<is_async_init, connects, ccalls>>

\* initialize() returns: the flag is set, and connect_to_sse_server awaits
\* get_tools, whose prehook now finds the flag set
Initialized(c) ==
  /\ cpc[c] = "initialize"
  /\ is_async_init' = TRUE
  /\ cpc' = [cpc EXCEPT ![c] = "listing"]
  /\ UNCHANGED <<sessions, connects, ccalls>>

\* connect_to_sse_server returns; the wrapped method starts
Listed(c) ==
  /\ cpc[c] = "listing"
  /\ cpc' = [cpc EXCEPT ![c] = "method"]
  /\ UNCHANGED <<is_async_init, sessions, connects, ccalls>>

\* the wrapped method (process_query, get_tools) returns
MethodReturn(c) ==
  /\ cpc[c] = "method"
  /\ cpc' = [cpc EXCEPT ![c] = "idle"]
  /\ ccalls' = [ccalls EXCEPT ![c] = @ + 1]
  /\ UNCHANGED <<is_async_init, sessions, connects>>

\* ------------------------------------------------------------------ parse_json_from_response

\* a response is a sequence of characters; a run of characters the parser
\* treats as a unit is one element
\* three backticks
FENCE == "FENCE"
JSONTAG == "json"
\* a newline
NL == "NL"
SP == " "
DIGIT == "1"
MINUS == "-"
STAR == "*"
\* a double quote
QUOTE == "QUOTE"
LBRACK == "["
RBRACK == "]"
LETTER == "a"
\* the line process_query writes for a tool call without arguments
PREAMBLE == "PREAMBLE"
\* the line process_query writes for a tool call with arguments
PREAMBLE_ARGS == "PREAMBLE_ARGS"

SetMin(S) == CHOOSE x \in S : \A y \in S : x <= y
SetMax(S) == CHOOSE x \in S : \A y \in S : x >= y

\* str.strip()
Whitespace == {SP, NL}
Strip(s) ==
  LET solid == {i \in 1..Len(s) : s[i] \notin Whitespace}
  IN  IF solid = {} THEN <<>> ELSE SubSeq(s, SetMin(solid), SetMax(solid))

\* the tool-call search of line 14: it ends on the line of a call without
\* arguments only, so it runs from the first such line, greedy to the last one
\* that no newline separates from it; the response becomes what follows,
\* stripped
ToolCallRest(s) ==
  LET ps == {i \in 1..Len(s) : s[i] = PREAMBLE}
  IN  IF ps = {} THEN s
      ELSE LET i == SetMin(ps)
               j == SetMax({m \in ps : \A k \in i..m : s[k] # NL})
           IN  Strip(SubSeq(s, j + 1, Len(s)))

\* the code-block search of line 19: from the first fence that has a fence
\* after it, past an optional json tag and newline, lazily to the next fence;
\* the stripped group, or the stripped response without a match
FenceContent(s) ==
  LET fs == {i \in 1..Len(s) : s[i] = FENCE}
  IN  IF Cardinality(fs) < 2 THEN Strip(s)
      ELSE LET i == SetMin(fs)
               b == IF i + 2 <= Len(s) /\ s[i + 1] = JSONTAG /\ s[i + 2] = NL
                    THEN i + 3 ELSE i + 1
               j == SetMin({m \in fs : m >= b})
           IN  Strip(SubSeq(s, b, j - 1))

\* the multi-line substitution of line 26: position i goes when a run of
\* whitespace, dashes and asterisks reaches it from the start of a line
Markdown == {SP, NL, MINUS, STAR}
Removed(s, i) ==
  \E b \in 1..i :
     /\ b = 1 \/ s[b - 1] = NL
     /\ \A k \in b..i : s[k] \in Markdown

RECURSIVE KeepFrom(_, _)
KeepFrom(s, i) ==
  IF i > Len(s) THEN <<>>
  ELSE (IF Removed(s, i) THEN <<>> ELSE <<s[i]>>) \o KeepFrom(s, i + 1)

CleanMarkdown(s) == KeepFrom(s, 1)

\* json.loads on the documents this alphabet can spell: an integer, a string,
\* a list of at most one scalar; everything else is a JSONDecodeError
IsNumber(u) ==
  /\ Len(u) >= 1
  /\ \/ \A i \in 1..Len(u) : u[i] = DIGIT
     \/ /\ Len(u) >= 2
        /\ u[1] = MINUS
        /\ \A i \in 2..Len(u) : u[i] = DIGIT

IsString(u) ==
  /\ Len(u) >= 2
  /\ u[1] = QUOTE
  /\ u[Len(u)] = QUOTE
  /\ \A i \in 2..(Len(u) - 1) : u[i] \notin {QUOTE, NL}

IsList(u) ==
  /\ Len(u) >= 2
  /\ u[1] = LBRACK
  /\ u[Len(u)] = RBRACK
  /\ LET e == Strip(SubSeq(u, 2, Len(u) - 1))
     IN  e = <<>> \/ IsNumber(e) \/ IsString(e)

JSONDecodeError == [type |-> "JSONDecodeError", val |-> <<>>]

JsonLoads(s) ==
  LET u == Strip(s)
  IN  IF IsNumber(u) THEN [type |-> "int", val |-> u]
      ELSE IF IsString(u) THEN [type |-> "str", val |-> SubSeq(u, 2, Len(u) - 1)]
      ELSE IF IsList(u) THEN [type |-> "list", val |-> Strip(SubSeq(u, 2, Len(u) - 1))]
      ELSE JSONDecodeError

parse_json_from_response(response) ==
  JsonLoads(CleanMarkdown(FenceContent(ToolCallRest(response))))

\* the two ways a model fences its answer
FencedJson(t) == <<FENCE, JSONTAG, NL>> \o t \o <<NL, FENCE>>
FencedPlain(t) == <<FENCE, NL>> \o t \o <<NL, FENCE>>

\* ------------------------------------------------------------------ process_query

VARIABLES
  backend,        \* chat_client_type the MCPClient was built with
  qpc,            \* where the process_query call stands
  nq,             \* process_query calls started so far
  requested,      \* len(response["tool_calls"]) of the first completion
  ti,             \* position of the for loop in response["tool_calls"]
  n_tool,         \* session.call_tool requests of this call
  n_completion,   \* get_completion requests of this call
  n_manifest,     \* get_completion requests of this call that passed tools
  followupAsked,  \* a follow-up completion of this call carried tool_calls
  tool_calls,     \* response["tool_calls"] of the first completion: has each arguments
  texts,          \* the text of each completion of this call, in order
  failure,        \* the external request of this call that failed, if any
  calls,          \* the external requests of this call, in order
  final_text      \* final_text

queryVars == <<backend, qpc, nq, requested, ti, n_tool, n_completion,
               n_manifest, followupAsked, tool_calls, texts, failure, calls, final_text>>

QueryInit ==
  /\ backend = "unset"
  /\ qpc = "new"
  /\ nq = 0
  /\ requested = 0
  /\ ti = 0
  /\ n_tool = 0
  /\ n_completion = 0
  /\ n_manifest = 0
  /\ followupAsked = FALSE
  /\ tool_calls = <<>>
  /\ texts = <<>>
  /\ failure = "none"
  /\ calls = <<>>
  /\ final_text = <<>>

Backends == {"openai", "ollama"}

\* what a completion may carry as text; the empty text is falsy
ResponseTexts ==
  { <<>>,
    <<LBRACK, RBRACK>>,
    FencedJson(<<LBRACK, DIGIT, RBRACK>>),
    <<QUOTE, LETTER, QUOTE>>,
    <<LETTER, SP, LETTER>>,
    <<DIGIT>>,
    W_interested,
    <<QUOTE>> \o W_Interested \o <<QUOTE>>,
    <<QUOTE>> \o W_not_interested \o <<QUOTE>> }

\* what the text of a completion that asks for tool calls may be: none or some
TextsWithToolCalls == { <<>>, <<LETTER>> }

\* what response["tool_calls"] may be: each call without or with arguments
ToolCallLists == SeqsUpTo({"noargs", "args"}, MaxToolCalls)

\* the line of line 156 for a tool call
Announcement(tool_call) ==
  IF tool_call = "noargs" THEN <<PREAMBLE>> ELSE <<PREAMBLE_ARGS>>

\* "Error: ..." as OllamaChatClient.get_completion words a failure
ErrorText == <<"Error:", SP, LETTER>>

Request(kind, idx) == [kind |-> kind, idx |-> idx]

\* final_text.append(str(text)) under if response.get("text")
WithText(ft, text) == IF text = <<>> THEN ft ELSE Append(ft, text)

\* "\n".join(final_text)
RECURSIVE Join(_)
Join(ft) ==
  IF ft = <<>> THEN <<>>
  ELSE IF Len(ft) = 1 THEN ft[1]
  ELSE ft[1] \o <<NL>> \o Join(Tail(ft))

\* MCPClient(url, chat_client_type)
NewClient(b) ==
  /\ qpc = "new"
  /\ backend' = b
  /\ qpc' = "idle"
  /\ UNCHANGED <<nq, requested, ti, n_tool, n_completion, n_manifest,
                 followupAsked, tool_calls, texts, failure, calls, final_text>>

\* process_query up to its first await: get_tools awaits session.list_tools
ProcessQueryStart ==
  /\ qpc \in {"idle", "returned", "raised"}
  /\ nq < MaxQueries
  /\ nq' = nq + 1
  /\ qpc' = "list_tools"
  /\ requested' = 0
  /\ ti' = 0
  /\ n_tool' = 0
  /\ n_completion' = 0
  /\ n_manifest' = 0
  /\ followupAsked' = FALSE
  /\ tool_calls' = <<>>
  /\ texts' = <<>>
  /\ failure' = "none"
  /\ calls' = <<Request("list_tools", 0)>>
  /\ final_text' = <<>>
  /\ UNCHANGED backend

\* list_tools returns and the first completion is requested, with the tools;
\* or list_tools raises and the error leaves process_query
ListToolsReturn ==
  /\ qpc = "list_tools"
  /\ \E ok \in BOOLEAN :
        IF ok
        THEN /\ qpc' = "completion"
             /\ n_completion' = n_completion + 1
             /\ n_manifest' = n_manifest + 1
             /\ calls' = Append(calls, Request("completion", 0))
             /\ UNCHANGED failure
        ELSE /\ qpc' = "raised"
             /\ failure' = "list_tools"
             /\ UNCHANGED <<n_completion, n_manifest, calls>>
  /\ UNCHANGED <<backend, nq, requested, ti, n_tool, followupAsked, tool_calls, texts,
                 final_text>>

\* does the for loop over response["tool_calls"] run again after call i
HasNextToolCall_Chase(k, i, more) == i < k \/ more
HasNextToolCall(k, i, more) == i < k

\* the fragments that go with the first response whatever tool calls it has
FirstFragments_Always(text, k) == WithText(<<>>, text)

\* lines 142-144: the text of the first response is a fragment only when the
\* response has no tool calls
FirstFragments(text, k) == IF k = 0 THEN WithText(<<>>, text) ELSE <<>>

\* the first get_completion returns text and tool calls: without tool calls
\* the text is the answer; with tool calls the first tool is invoked
CompletionOk(text, tcs) ==
  /\ requested' = Len(tcs)
  /\ tool_calls' = tcs
  /\ texts' = <<text>>
  /\ final_text' = FirstFragments(text, Len(tcs))
  /\ IF tcs = <<>>
     THEN /\ qpc' = "returned"
          /\ UNCHANGED <<ti, n_tool, calls>>
     ELSE /\ ti' = 1
          /\ qpc' = "call_tool"
          /\ n_tool' = n_tool + 1
          /\ calls' = Append(calls, Request("call_tool", 1))
  /\ UNCHANGED failure

\* the request of a get_completion fails: OpenAIChatClient lets the error out,
\* OllamaChatClient returns it as the text of a response without tool calls
CompletionFailed ==
  /\ failure' = "completion"
  /\ IF backend = "openai"
     THEN /\ qpc' = "raised"
          /\ UNCHANGED <<requested, final_text>>
     ELSE /\ requested' = 0
          /\ final_text' = WithText(final_text, ErrorText)
          /\ qpc' = "returned"
  /\ texts' = IF backend = "openai" THEN texts ELSE <<ErrorText>>
  /\ UNCHANGED <<ti, n_tool, calls, tool_calls>>

CompletionReturn ==
  /\ qpc = "completion"
  /\ \/ \E text \in ResponseTexts : CompletionOk(text, <<>>)
     \/ \E text \in TextsWithToolCalls, tcs \in ToolCallLists \ {<<>>} :
           CompletionOk(text, tcs)
     \/ CompletionFailed
  /\ UNCHANGED <<backend, nq, n_completion, n_manifest, followupAsked>>

\* call_tool returns: the preamble line is written and the follow-up completion
\* is requested, without tools; or call_tool raises
CallToolReturn ==
  /\ qpc = "call_tool"
  /\ \E ok \in BOOLEAN :
        IF ok
        THEN /\ final_text' = Append(final_text, Announcement(tool_calls[ti]))
             /\ qpc' = "followup"
             /\ n_completion' = n_completion + 1
             /\ calls' = Append(calls, Request("completion", ti))
             /\ UNCHANGED failure
        ELSE /\ qpc' = "raised"
             /\ failure' = "call_tool"
             /\ UNCHANGED <<final_text, n_completion, calls>>
  /\ UNCHANGED <<backend, nq, requested, ti, n_tool, n_manifest, followupAsked,
                 tool_calls, texts>>

\* after follow-up i: the next tool of the first response is invoked, or the
\* joined text is returned
AfterFollowup(more) ==
  IF HasNextToolCall(requested, ti, more)
  THEN /\ ti' = ti + 1
       /\ qpc' = "call_tool"
       /\ n_tool' = n_tool + 1
       /\ calls' = Append(calls, Request("call_tool", ti + 1))
  ELSE /\ qpc' = "returned"
       /\ UNCHANGED <<ti, n_tool, calls>>

\* the follow-up get_completion returns: only its text is read, whatever
\* tool_calls it carries; a failed request raises with OpenAIChatClient and is
\* text with OllamaChatClient
FollowupReturn ==
  /\ qpc = "followup"
  /\ \/ \E text \in ResponseTexts, more \in BOOLEAN :
           /\ final_text' = WithText(final_text, text)
           /\ texts' = Append(texts, text)
           /\ followupAsked' = (followupAsked \/ more)
           /\ AfterFollowup(more)
           /\ UNCHANGED failure
     \/ /\ failure' = "followup"
        /\ IF backend = "openai"
           THEN /\ qpc' = "raised"
                /\ UNCHANGED <<final_text, texts, ti, n_tool, calls>>
           ELSE /\ final_text' = WithText(final_text, ErrorText)
                /\ texts' = Append(texts, ErrorText)
                /\ AfterFollowup(FALSE)
        /\ UNCHANGED followupAsked
  /\ UNCHANGED <<backend, nq, requested, n_completion, n_manifest, tool_calls>>

\* ------------------------------------------------------------------ agents

VARIABLES
  agent,      \* the agent function running or last run
  apc,        \* where the agent call stands
  n_queries,  \* process_query calls the agent call has made
  aresult     \* what the agent call returned

agentVars == <<agent, apc, n_queries, aresult>>

Agents == {"find_candidates_agent", "create_email_agent", "classify_email_agent"}

\* a single quote and a backtick
APOS == "APOS"
TICK == "TICK"

EmptyList == [type |-> "list", val |-> <<>>]
EmptyPayload == [type |-> "dict", val |-> <<>>]

AgentInit ==
  /\ agent = "none"
  /\ apc = "idle"
  /\ n_queries = 0
  /\ aresult = EmptyList

\* str() of a parsed document
Str(v) ==
  IF v.type = "list"
  THEN <<LBRACK>>
       \o (IF IsString(v.val)
           THEN <<APOS>> \o SubSeq(v.val, 2, Len(v.val) - 1) \o <<APOS>>
           ELSE v.val)
       \o <<RBRACK>>
  ELSE v.val

\* len(response.split()); the line of a tool call is six words without
\* arguments and seven or more with them
WordCount(s) ==
  Cardinality({i \in 1..Len(s) : s[i] \notin Whitespace /\ (i = 1 \/ s[i - 1] \in Whitespace)})
  + 5 * Cardinality({i \in 1..Len(s) : s[i] = PREAMBLE})
  + 6 * Cardinality({i \in 1..Len(s) : s[i] = PREAMBLE_ARGS})

WordChars ==
  {LETTER, DIGIT, JSONTAG, "_",
   "i", "n", "t", "e", "r", "s", "d", "j", "c", "u", "o", "l",
   "I", "N", "T", "E", "R", "S", "D", "J", "C"}

\* the first character of an element
FirstChar(c) ==
  CASE c = FENCE -> TICK [] c \in {PREAMBLE, PREAMBLE_ARGS} -> LBRACK [] OTHER -> c

\* get_word: the first word or punctuation mark, lower-cased
get_word(text) ==
  LET solid == {i \in 1..Len(text) : text[i] \notin Whitespace}
  IN  IF solid = {} THEN <<>>
      ELSE LET i == SetMin(solid)
               stops == {m \in i..Len(text) : text[m] \notin WordChars}
               e == IF stops = {} THEN Len(text) ELSE SetMin(stops) - 1
           IN  IF text[i] \in WordChars
               THEN Lower(SubSeq(text, i, e))
               ELSE <<FirstChar(text[i])>>

\* find_candidates_agent without the isinstance test
FindCandidatesResult_NoTypeCheck(qraised, response) ==
  IF qraised THEN EmptyList
  ELSE LET found == parse_json_from_response(response)
       IN  IF found = JSONDecodeError THEN EmptyList ELSE found

\* find_candidates_agent: result stays [] unless the response parses to a list
FindCandidatesResult(qraised, response) ==
  IF qraised THEN EmptyList
  ELSE LET found == parse_json_from_response(response)
       IN  IF found = JSONDecodeError THEN EmptyList
           ELSE IF found.type = "list" THEN found
           ELSE EmptyList

\* create_email_agent: {} when process_query or the parser raises, else the
\* payload with str() of the parsed response as message
CreateEmailResult(qraised, response) ==
  IF qraised THEN EmptyPayload
  ELSE LET parsed == parse_json_from_response(response)
       IN  IF parsed = JSONDecodeError THEN EmptyPayload
           ELSE [type |-> "email_data", val |-> Str(parsed)]

\* classify_email_agent that hands back str() of whatever parsed
ClassifyEmailResult_WholeText(qraised, response) ==
  IF qraised THEN [type |-> "str", val |-> W_not_clear]
  ELSE LET parsed == parse_json_from_response(response)
       IN  IF parsed = JSONDecodeError THEN [type |-> "str", val |-> W_not_clear]
           ELSE [type |-> "str", val |-> Lower(Str(parsed))]

\* classify_email_agent: "not clear" unless the response parses and its str()
\* is a single word
ClassifyEmailResult(qraised, response) ==
  IF qraised THEN [type |-> "str", val |-> W_not_clear]
  ELSE LET parsed == parse_json_from_response(response)
       IN  IF parsed = JSONDecodeError THEN [type |-> "str", val |-> W_not_clear]
           ELSE IF WordCount(Str(parsed)) = 1
                THEN [type |-> "str", val |-> get_word(Str(parsed))]
                ELSE [type |-> "str", val |-> W_not_clear]

\* classification = "not clear" of classify_email_agent, returned when the
\* agent failed
NeutralToken == W_not_clear

\* what an agent call returns unless its try block runs to its end: [], {} and
\* "not clear"
AgentDefault(a) ==
  CASE a = "find_candidates_agent" -> EmptyList
    [] a = "create_email_agent" -> EmptyPayload
    [] a = "classify_email_agent" -> [type |-> "str", val |-> NeutralToken]

\* an agent builds its prompt and awaits process_query
AgentCall(a) ==
  /\ apc \in {"idle", "finished"}
  /\ agent' = a
  /\ apc' = "awaiting"
  /\ n_queries' = 1
  /\ ProcessQueryStart
  /\ aresult' = AgentDefault(a)

\* process_query has returned its text or raised; the agent returns
AgentReturn ==
  /\ apc = "awaiting"
  /\ qpc \in {"returned", "raised"}
  /\ apc' = "finished"
  /\ aresult' =
       CASE agent = "find_candidates_agent" ->
              FindCandidatesResult(qpc = "raised", Join(final_text))
         [] agent = "create_email_agent" ->
              CreateEmailResult(qpc = "raised", Join(final_text))
         [] agent = "classify_email_agent" ->
              ClassifyEmailResult(qpc = "raised", Join(final_text))
  /\ UNCHANGED <<agent, n_queries, queryVars>>

\* ------------------------------------------------------------------ background loops

VARIABLES
  stop_event,      \* stop_event.is_set()
  lifespan_pc,     \* where the lifespan context stands
  lpc,             \* where each loop task stands
  pending,         \* external calls the running tick of each loop still awaits
  outcome,         \* how the last finished tick of each loop ended
  tickBit,         \* ticks each loop has begun, modulo 2
  inflightAtStop,  \* the loops whose tick was in flight when the event was set
  inflight         \* ticks of each loop that have begun and neither returned nor raised

loopVars == <<stop_event, lifespan_pc, lpc, pending, outcome, tickBit, inflightAtStop,
              inflight>>

Loops == {"check_jobs_loop", "check_email_replies_loop"}

\* lifespan up to its yield: the event is clear and both tasks are created
LoopInit ==
  /\ stop_event = FALSE
  /\ lifespan_pc = "serving"
  /\ lpc = [l \in Loops |-> "test"]
  /\ pending = [l \in Loops |-> 0]
  /\ outcome = [l \in Loops |-> "none"]
  /\ tickBit = [l \in Loops |-> 0]
  /\ inflightAtStop = {}
  /\ inflight = [l \in Loops |-> 0]

\* the loop that goes on whatever the event says
LoopRuns_Always(stopSet) == TRUE
\* while not stop_event.is_set()
LoopRuns(stopSet) == ~stopSet

\* a loop whose except clause lets the exception out of the task
AfterTick_Propagate(how) == IF how = "raised" THEN "done" ELSE "delay"
\* both the return and the except clause fall through to the wait_for
AfterTick(how) == "delay"

\* a wait that neither the event nor the timeout ends
DelayEnds_Never(stopSet, timedOut) == FALSE
\* wait_for(stop_event.wait(), timeout=...) ends when the event is set or the
\* timeout has passed; TimeoutError is passed over
DelayEnds(stopSet, timedOut) == stopSet \/ timedOut

\* a loop that starts its tick as a task of its own and goes on to the wait
WhileTickRuns_Detached == "delay"
\* await agent.check_jobs(), await agent.check_candidates_replies(): the loop
\* stands in its tick until the tick has returned or raised
WhileTickRuns == "tick"

\* a loop that holds its tick back while the other loop's tick is in flight
MayStartTick_Serial(otherInTick) == ~otherInTick
\* the while test looks at the stop event only: nothing a loop does depends on
\* where the other loop stands
MayStartTick(otherInTick) == TRUE

\* the while test; when it passes the tick runs up to its first await, or to
\* its end when it returns or raises before awaiting anything
LoopTest(l) ==
  /\ lpc[l] = "test"
  /\ MayStartTick(\E o \in Loops \ {l} : lpc[o] = "tick")
  /\ IF LoopRuns(stop_event)
     THEN /\ tickBit' = [tickBit EXCEPT ![l] = 1 - @]
          /\ \E n \in 0..MaxAwaits, how \in {"returned", "raised"} :
                IF n = 0
                THEN /\ outcome' = [outcome EXCEPT ![l] = how]
                     /\ lpc' = [lpc EXCEPT ![l] = AfterTick(how)]
                     /\ UNCHANGED pending
                     /\ UNCHANGED inflight
                ELSE /\ pending' = [pending EXCEPT ![l] = n]
                     /\ lpc' = [lpc EXCEPT ![l] = WhileTickRuns]
                     /\ inflight' = [inflight EXCEPT ![l] = @ + 1]
                     /\ UNCHANGED outcome
     ELSE /\ lpc' = [lpc EXCEPT ![l] = "done"]
          /\ UNCHANGED <<pending, outcome, tickBit, inflight>>
  /\ UNCHANGED <<stop_event, lifespan_pc, inflightAtStop>>

\* an external call of the running tick returns or fails: the tick goes on to
\* its next await, returns, or raises
TickStep(l) ==
  /\ lpc[l] = "tick"
  /\ \/ /\ pending[l] > 1
        /\ pending' = [pending EXCEPT ![l] = @ - 1]
        /\ UNCHANGED <<lpc, outcome, inflight>>
     \/ /\ pending[l] = 1
        /\ pending' = [pending EXCEPT ![l] = 0]
        /\ outcome' = [outcome EXCEPT ![l] = "returned"]
        /\ lpc' = [lpc EXCEPT ![l] = AfterTick("returned")]
        /\ inflight' = [inflight EXCEPT ![l] = @ - 1]
     \/ /\ pending' = [pending EXCEPT ![l] = 0]
        /\ outcome' = [outcome EXCEPT ![l] = "raised"]
        /\ lpc' = [lpc EXCEPT ![l] = AfterTick("raised")]
        /\ inflight' = [inflight EXCEPT ![l] = @ - 1]
  /\ UNCHANGED <<stop_event, lifespan_pc, tickBit, inflightAtStop>>

\* the wait between ticks ends
DelayEnd(l) ==
  /\ lpc[l] = "delay"
  /\ \E timedOut \in BOOLEAN : DelayEnds(stop_event, timedOut)
  /\ lpc' = [lpc EXCEPT ![l] = "test"]
  /\ UNCHANGED <<stop_event, lifespan_pc, pending, outcome, tickBit, inflightAtStop,
                 inflight>>

\* lifespan's finally: stop_event.set(), then gather awaits both tasks
Shutdown ==
  /\ lifespan_pc = "serving"
  /\ stop_event' = TRUE
  /\ lifespan_pc' = "gathering"
  /\ inflightAtStop' = {l \in Loops : lpc[l] = "tick"}
  /\ UNCHANGED <<lpc, pending, outcome, tickBit, inflight>>

\* gather returns once both tasks are done
GatherReturn ==
  /\ lifespan_pc = "gathering"
  /\ \A l \in Loops : lpc[l] = "done"
  /\ lifespan_pc' = "stopped"
  /\ UNCHANGED <<stop_event, lpc, pending, outcome, tickBit, inflightAtStop, inflight>>

\* ------------------------------------------------------------------ writers of people.json

VARIABLES
  writer,   \* the component that made the last write of people.json
  nwrites   \* writes of people.json so far

peopleVars == <<writer, nwrites>>

PeopleInit ==
  /\ writer = "none"
  /\ nwrites = 0

\* PeopleStore.update_status on the persisted candidate list
PeopleUpdateStatus(cands, candidate_id, new_status) ==
  LET i == CandidateIndex(cands, candidate_id)
  IN  IF i = 0 THEN cands
      ELSE [cands EXCEPT ![i] = [@ EXCEPT !.status = new_status]]

\* PeopleStore.update_random_statuses, the draws having picked the candidates
\* in chosen
UpdateRandomStatuses(cands, chosen) ==
  [i \in 1..Len(cands) |->
     IF cands[i].candidate_id \in chosen
     THEN [cands[i] EXCEPT !.status =
             IF @ = "Not Available" THEN "Available" ELSE "Not Available"]
     ELSE cands[i]]

\* what a write of people.json leaves alone
besideCandFile == <<jobsFile, mirrorVars, sent, matchVars, replyVars>>

\* check_jobs records an outreach: add_message, then update_candidate_status
EngineOutreach ==
  /\ nwrites < MaxWrites
  /\ \E c \in CandidateIds, j \in JobIds :
        candFile' = UpdateCandidateStatus(AddMessage(candFile, c, "draft"), c, "requested", j)
  /\ writer' = "engine"
  /\ nwrites' = nwrites + 1
  /\ UNCHANGED besideCandFile

\* check_candidates_replies files a classified email with its candidate, unless
\* update_job_availability has raised before
EngineReplyLogged ==
  /\ nwrites < MaxWrites
  /\ IF JobStoreHasLogger
     THEN /\ \E c \in CandidateIds : candFile' = AddMessage(candFile, c, "email")
          /\ writer' = "engine"
     ELSE UNCHANGED <<candFile, writer>>
  /\ nwrites' = nwrites + 1
  /\ UNCHANGED besideCandFile

\* PUT /update-status/{candidate_id} of the people server: 404 without a write
\* when no record carries the id
UpdateStatusEndpoint ==
  /\ nwrites < MaxWrites
  /\ \E c \in CandidateIds \cup GhostIds, st \in {"Available", "Not Available"} :
        /\ candFile' = PeopleUpdateStatus(candFile, c, st)
        /\ writer' = IF CandidateIndex(candFile, c) # 0 THEN "people" ELSE writer
  /\ nwrites' = nwrites + 1
  /\ UNCHANGED besideCandFile

\* one pass of status_update_loop: the file is saved when a status was flipped
StatusUpdateTick ==
  /\ nwrites < MaxWrites
  /\ \E chosen \in SUBSET CandidateIds :
        /\ candFile' = UpdateRandomStatuses(candFile, chosen)
        /\ writer' = IF chosen # {} THEN "people" ELSE writer
  /\ nwrites' = nwrites + 1
  /\ UNCHANGED besideCandFile

\* ------------------------------------------------------------------ two processes on people.json

VARIABLES
  srvData,   \* self.data of the people server's PeopleStore
  srvPc      \* where its update_random_statuses stands: between load and save or not

raceVars == <<srvData, srvPc>>

RaceInit ==
  /\ srvData = <<>>
  /\ srvPc = "idle"

\* update_random_statuses of the people server process from its get_list to
\* the flips of the candidates its draws picked; no save when none was picked
ServerLoadFlip ==
  /\ srvPc = "idle"
  /\ nwrites < MaxWrites
  /\ \E chosen \in SUBSET CandidateIds :
        /\ srvData' = UpdateRandomStatuses(GetList(candFile), chosen)
        /\ srvPc' = IF chosen # {} THEN "saving" ELSE "idle"
  /\ UNCHANGED <<candFile, peopleVars, besideCandFile>>

\* its self.save(): the file becomes the list the process holds
ServerSave ==
  /\ srvPc = "saving"
  /\ candFile' = srvData
  /\ writer' = "people"
  /\ nwrites' = nwrites + 1
  /\ srvPc' = "idle"
  /\ UNCHANGED <<srvData, besideCandFile>>

\* ------------------------------------------------------------------ email store of the people server

VARIABLES
  emailsFile,  \* emails.json
  listed,      \* GET /emails has been served
  listFilter,  \* the candidate_id query parameter of the last GET /emails
  listing      \* what the last GET /emails returned

emailVars == <<emailsFile, listed, listFilter, listing>>

EmailInit ==
  /\ emailsFile = <<>>
  /\ listed = FALSE
  /\ listFilter = NoCandidate
  /\ listing = <<>>

\* JsonListStore.get_list(field, value): everything when the field is falsy,
\* else the items whose item.get(field) equals the value (None for a missing key)
GetListBy(data, field, value) ==
  IF field = "" THEN data
  ELSE SelectSeq(data,
         LAMBDA item : (IF field \in DOMAIN item THEN item[field] ELSE NoCandidate) = value)

\* EmailStore._get_next_email_id
NextEmailId(data) ==
  IF data = <<>> THEN 1 ELSE SetMax({data[i].email_id : i \in 1..Len(data)}) + 1

\* POST /send-email/{candidate_id} with a complete body for a known candidate:
\* EmailStore.send_email appends the entry
SendEmailStored ==
  /\ Len(emailsFile) < MaxEmails
  /\ \E c \in CandidateIds :
        emailsFile' = Append(emailsFile,
                             [email_id |-> NextEmailId(emailsFile), candidate_id |-> c])
  /\ UNCHANGED <<listed, listFilter, listing>>

\* GET /emails: the query parameter is None when absent
ListEmails ==
  /\ \E f \in CandidateIds \cup GhostIds \cup {NoCandidate} :
        /\ listFilter' = f
        /\ listing' = GetListBy(emailsFile, "candidate_id", f)
  /\ listed' = TRUE
  /\ UNCHANGED emailsFile

\* ------------------------------------------------------------------ parsing, plain and fenced

VARIABLES
  text,           \* the text t handed to the parser
  parsedBoth,     \* t has been parsed plain and fenced
  wrapKind,       \* the fence t was wrapped in
  plainResult,    \* parse_json_from_response(t)
  wrappedResult   \* parse_json_from_response(t in its fence)

parseVars == <<text, parsedBoth, wrapKind, plainResult, wrappedResult>>

ParseInit ==
  /\ text = <<>>
  /\ parsedBoth = FALSE
  /\ wrapKind = "json"
  /\ plainResult = JSONDecodeError
  /\ wrappedResult = JSONDecodeError

TextChars == {DIGIT, MINUS, QUOTE, FENCE, NL, SP, LBRACK, RBRACK, LETTER, PREAMBLE}

Wrap(kind, t) == IF kind = "json" THEN FencedJson(t) ELSE FencedPlain(t)

\* one more character of t
ExtendText ==
  /\ ~parsedBoth
  /\ Len(text) < MaxTextLen
  /\ \E c \in TextChars : text' = Append(text, c)
  /\ UNCHANGED <<parsedBoth, wrapKind, plainResult, wrappedResult>>

\* parse_json_from_response on t and on t inside a fenced code block
ParseBoth ==
  /\ ~parsedBoth
  /\ \E kind \in {"json", "plain"} :
        /\ wrapKind' = kind
        /\ wrappedResult' = parse_json_from_response(Wrap(kind, text))
  /\ plainResult' = parse_json_from_response(text)
  /\ parsedBoth' = TRUE
  /\ UNCHANGED text

\* ------------------------------------------------------------------ poll loop of the people server

VARIABLES
  mailFile,      \* emails.json with the read flag and the response of each email
  routeData,     \* email_manager.data of people_server.py
  pollData,      \* people_manager.email_manager.data
  ppc,           \* where poll_and_reply_to_emails stands
  plist,         \* the list its for loop iterates: get_list() as it was at the start
  ppos,          \* position of the for loop in that list
  storedDuring   \* the ids of the emails stored while a reply was being generated

pollVars == <<mailFile, routeData, pollData, ppc, plist, ppos, storedDuring>>

NoResponse == "None"

PollInit ==
  /\ mailFile = <<>>
  /\ routeData = <<>>
  /\ pollData = <<>>
  /\ ppc = "idle"
  /\ plist = <<>>
  /\ ppos = 0
  /\ storedDuring = {}

\* JsonListStore.get_list: load, then self.data, which is what the file holds now
Load(data, file) == file

\* a get_single that looks the record up in the list the store read last
GetSingleLoad_Cached(data, file) == data

\* JsonListStore.get_single: load, then the lookup in what the file holds now
GetSingleLoad(data, file) == file

EmailIndex(data, email_id) ==
  FirstIndex([i \in 1..Len(data) |-> data[i].email_id], email_id, 1)

\* EmailStore.mark_email_as_read on the list just loaded
MarkEmailAsRead(data, email_id) ==
  LET i == EmailIndex(data, email_id)
  IN  IF i = 0 THEN data
      ELSE IF ~data[i].read THEN [data EXCEPT ![i] = [@ EXCEPT !.read = TRUE]]
      ELSE data

\* save_response that stores the text and clears the flag
SaveResponse_Unread(data, email_id, reply_text) ==
  LET i == EmailIndex(data, email_id)
  IN  IF i = 0 THEN data
      ELSE [data EXCEPT ![i] = [@ EXCEPT !.response = reply_text, !.read = FALSE]]

\* EmailStore.save_response on the list just loaded
SaveResponse(data, email_id, reply_text) ==
  LET i == EmailIndex(data, email_id)
  IN  IF i = 0 THEN data
      ELSE [data EXCEPT ![i] = [@ EXCEPT !.response = reply_text, !.read = TRUE]]

\* EmailStore.send_email on the list just loaded by _get_next_email_id
SendEmailEntry(data, candidate_id) ==
  Append(data, [email_id |-> NextEmailId(data), candidate_id |-> candidate_id,
                response |-> NoResponse, read |-> FALSE])

\* the for loop of poll_and_reply_to_emails from position i, on the store data
\* d and the file f: an email without response and unread is marked read, and
\* then ignored when its draw says so; the loop stops at the first email it
\* asks a reply for, or at the end of the list
RECURSIVE PollScan(_, _, _, _, _)
PollScan(list, i, d, f, ignored) ==
  IF i > Len(list) THEN [data |-> d, file |-> f, pos |-> i]
  ELSE IF list[i].response = NoResponse /\ ~list[i].read
  THEN LET marked == MarkEmailAsRead(GetSingleLoad(d, f), list[i].email_id)
       IN  IF list[i].email_id \in ignored
           THEN PollScan(list, i + 1, marked, marked, ignored)
           ELSE [data |-> marked, file |-> marked, pos |-> i]
  ELSE PollScan(list, i + 1, d, f, ignored)

\* the loop runs on from position i to its next await or to its end
PollRunsOn(list, i, d, f) ==
  \E ignored \in SUBSET {list[k].email_id : k \in 1..Len(list)} :
     LET r == PollScan(list, i, d, f, ignored)
     IN  /\ pollData' = r.data
         /\ mailFile' = r.file
         /\ ppos' = r.pos
         /\ ppc' = IF r.pos > Len(list) THEN "idle" ELSE "generating"

\* poll_and_reply_to_emails up to its first await or to its end
PollStart ==
  /\ ppc = "idle"
  /\ plist' = Load(pollData, mailFile)
  /\ PollRunsOn(plist', 1, plist', mailFile)
  /\ UNCHANGED <<routeData, storedDuring>>

\* _generate_ai_response returns its text, the error text of the Ollama client
\* included; the reply is saved and the loop runs on
GenerateReturn ==
  /\ ppc = "generating"
  /\ LET saved == SaveResponse(GetSingleLoad(pollData, mailFile), plist[ppos].email_id, "text")
     IN  PollRunsOn(plist, ppos + 1, saved, saved)
  /\ UNCHANGED <<routeData, plist, storedDuring>>

\* POST /send-email/{candidate_id} of a known candidate with a complete body
RouteSendEmail ==
  /\ Len(mailFile) < MaxEmails
  /\ \E c \in CandidateIds :
        /\ routeData' = SendEmailEntry(Load(routeData, mailFile), c)
        /\ mailFile' = routeData'
        /\ storedDuring' = IF ppc = "generating"
                           THEN storedDuring \cup {routeData'[Len(routeData')].email_id}
                           ELSE storedDuring
  /\ UNCHANGED <<pollData, ppc, plist, ppos>>

\* ------------------------------------------------------------------ one loop alone

\* what a tick did, kept beside the state of agent.py: the results of
\* send_email, the outcomes of find_candidates_agent, the list GET /emails keeps returning, the outcome of
\* the last classify_email_agent
VARIABLES dispatched, pfail, steady, cfailed

tickVars == <<dispatched, pfail, steady, cfailed>>

TickInit ==
  /\ dispatched = <<>>
  /\ pfail = <<>>
  /\ steady = <<>>
  /\ cfailed = FALSE

ProposedOnFailure_Stale == <<"Ann">>

\* result = [] of find_candidates_agent, returned when the agent failed
ProposedOnFailure == <<>>

\* find_candidates_agent returns, having failed or not
FindCandidatesOutcome ==
  /\ FindCandidatesReturn
  /\ \E f \in BOOLEAN :
        /\ pfail' = Append(pfail, f)
        /\ f => proposed' = ProposedOnFailure
  /\ UNCHANGED <<dispatched, steady, cfailed>>

\* create_email_agent returns; the steps of the outreach run up to the POST
CreateEmailOutcome ==
  /\ CreateEmailReturn
  /\ UNCHANGED tickVars

\* send_email returns True, or False when the POST failed; the people server
\* answers 400 to an empty message
SendEmailOutcome ==
  /\ SendEmailReturn
  /\ \E r \in {"ok", "failed"} :
        /\ currentMatches[1].sent_email = "empty" => r = "failed"
        /\ dispatched' = Append(dispatched, r)
  /\ UNCHANGED <<pfail, steady, cfailed>>

\* a further tick of check_email_replies_loop, up to the await of read_emails
CheckRepliesAgain ==
  /\ rpc = "idle"
  /\ rresult' = "running"
  /\ rpc' = "fetching"
  /\ UNCHANGED <<jobsFile, candFile, mirrorVars, sent, matchVars, rticks, inbox, ri, rjob,
                 classified, replayed, lenBefore>>
  /\ UNCHANGED tickVars

\* read_emails returns the list GET /emails keeps returning
ReadEmailsSteady ==
  /\ ReadEmailsReturn
  /\ steady # <<>> => inbox' = steady
  /\ steady' = inbox'
  /\ UNCHANGED <<dispatched, pfail, cfailed>>

\* classify_email_agent returns, having failed or not
ClassifyOutcome ==
  /\ ClassifyReturn
  /\ \E f \in BOOLEAN :
        /\ cfailed' = f
        /\ f => replies'[1].classification = NeutralToken
  /\ UNCHANGED <<dispatched, pfail, steady>>

\* ------------------------------------------------------------------ specification

OrchNext ==
  \/ CheckJobsEmpty
  \/ CheckJobsStart
  \/ FindCandidatesReturn
  \/ CreateEmailReturn
  \/ SendEmailReturn
  \/ CheckRepliesStart
  \/ ReadEmailsReturn
  \/ ClassifyReturn

vars == <<orchVars, jobCallVars, tokenVars, mcpVars, queryVars, agentVars, loopVars,
         peopleVars, emailVars, parseVars, tickVars, pollVars, raceVars>>

Init ==
  /\ OrchInit /\ JobCallInit /\ TokenInit /\ McpInit
  /\ QueryInit /\ AgentInit /\ LoopInit /\ PeopleInit /\ EmailInit
  /\ ParseInit /\ TickInit /\ PollInit /\ RaceInit

\* the two loops of agent_server.py, interleaved at their awaits
Next == OrchNext /\ UNCHANGED <<jobCallVars, tokenVars, mcpVars, queryVars, agentVars, loopVars, peopleVars, emailVars, parseVars, tickVars, pollVars, raceVars>>

Spec == Init /\ [][Next]_vars

\* any sequence of calls of the job store's mutator
JobStoreNext ==
  UpdateJobAvailabilityCall /\ UNCHANGED <<tokenVars, mcpVars, queryVars, agentVars, loopVars, peopleVars, emailVars, parseVars, tickVars, pollVars, raceVars>>

SpecJobStore == Init /\ [][JobStoreNext]_vars

\* the classification rule on every token of the bounded set
ClassifyNext ==
  (ExtendToken \/ EvaluateAvailable)
  /\ UNCHANGED <<orchVars, jobCallVars, mcpVars, queryVars, agentVars, loopVars, peopleVars, emailVars, parseVars, tickVars, pollVars, raceVars>>

SpecClassify == Init /\ [][ClassifyNext]_vars

\* the callers of the shared client, interleaved at their awaits
McpNext ==
  /\ \E c \in Callers :
        \/ CallStart(c)
        \/ StreamsEntered(c)
        \/ StreamsFailed(c)
        \/ SessionEntered(c)
        \/ Initialized(c)
        \/ Listed(c)
        \/ MethodReturn(c)
  /\ UNCHANGED <<orchVars, jobCallVars, tokenVars, queryVars, agentVars, loopVars, peopleVars, emailVars, parseVars, tickVars, pollVars, raceVars>>

SpecMcp == Init /\ [][McpNext]_vars

\* the agents of agent.py, one call at a time, over process_query and its
\* external requests
QueryNext ==
  /\ \/ \E b \in Backends : NewClient(b) /\ UNCHANGED agentVars
     \/ \E a \in Agents : AgentCall(a)
     \/ ListToolsReturn /\ UNCHANGED agentVars
     \/ CompletionReturn /\ UNCHANGED agentVars
     \/ CallToolReturn /\ UNCHANGED agentVars
     \/ FollowupReturn /\ UNCHANGED agentVars
     \/ AgentReturn
  /\ UNCHANGED <<orchVars, jobCallVars, tokenVars, mcpVars, loopVars, peopleVars, emailVars, parseVars, tickVars, pollVars, raceVars>>

SpecQuery == Init /\ [][QueryNext]_vars

\* what the lifespan and its loop tasks leave alone
besideLoops ==
  <<orchVars, jobCallVars, tokenVars, mcpVars, queryVars, agentVars, peopleVars, emailVars, parseVars, tickVars, pollVars, raceVars>>

\* the lifespan of agent_server.py and its two loop tasks
LoopsNext ==
  /\ \/ \E l \in Loops : LoopTest(l)
     \/ \E l \in Loops : TickStep(l)
     \/ \E l \in Loops : DelayEnd(l)
     \/ Shutdown
     \/ GatherReturn
  /\ UNCHANGED besideLoops

SpecLoops == Init /\ [][LoopsNext]_vars

\* the writers of people.json, one write at a time: the two ticks of the
\* orchestration engine and the people server
OwnershipNext ==
  /\ \/ EngineOutreach
     \/ EngineReplyLogged
     \/ UpdateStatusEndpoint
     \/ StatusUpdateTick
  /\ UNCHANGED <<jobCallVars, tokenVars, mcpVars, queryVars, agentVars, loopVars, emailVars, parseVars, tickVars, pollVars, raceVars>>

SpecOwnership == Init /\ [][OwnershipNext]_vars

\* the engine's process and the people server's process on people.json, the
\* server's load and save as the two file operations they are
RaceNext ==
  /\ \/ EngineOutreach /\ UNCHANGED raceVars
     \/ ServerLoadFlip
     \/ ServerSave
  /\ UNCHANGED <<jobCallVars, tokenVars, mcpVars, queryVars, agentVars, loopVars, emailVars,
                 parseVars, tickVars, pollVars>>

SpecRace == Init /\ [][RaceNext]_vars

\* the email endpoints of the people server
EmailNext ==
  /\ \/ SendEmailStored
     \/ ListEmails
  /\ UNCHANGED <<orchVars, jobCallVars, tokenVars, mcpVars, queryVars, agentVars, loopVars,
                 peopleVars, parseVars, tickVars, pollVars, raceVars>>

SpecEmails == Init /\ [][EmailNext]_vars

\* the parser on every text of the bounded alphabet, plain and fenced
ParseNext ==
  /\ \/ ExtendText
     \/ ParseBoth
  /\ UNCHANGED <<orchVars, jobCallVars, tokenVars, mcpVars, queryVars, agentVars, loopVars,
                 peopleVars, emailVars, tickVars, pollVars, raceVars>>

SpecParse == Init /\ [][ParseNext]_vars

\* the email store of the people server under its poll loop and its route
PollNext ==
  /\ \/ PollStart
     \/ GenerateReturn
     \/ RouteSendEmail
  /\ UNCHANGED <<orchVars, jobCallVars, tokenVars, mcpVars, queryVars, agentVars, loopVars,
                 peopleVars, emailVars, parseVars, tickVars, raceVars>>

SpecPoll == Init /\ [][PollNext]_vars

\* the matching loop alone, with what its ticks did
MatchNext ==
  /\ \/ CheckJobsEmpty /\ UNCHANGED tickVars
     \/ CheckJobsStart /\ UNCHANGED tickVars
     \/ FindCandidatesOutcome
     \/ CreateEmailOutcome
     \/ SendEmailOutcome
  /\ UNCHANGED <<jobCallVars, tokenVars, mcpVars, queryVars, agentVars, loopVars, peopleVars, emailVars, parseVars, pollVars, raceVars>>

SpecMatch == Init /\ [][MatchNext]_vars

\* what the reply loop alone leaves alone
besideReplies ==
  <<jobCallVars, tokenVars, mcpVars, queryVars, agentVars, loopVars, peopleVars, emailVars, parseVars,
    pollVars, raceVars>>

\* the reply loop alone, tick after tick on the list the fetch keeps returning
ReplyNext ==
  /\ \/ CheckRepliesAgain
     \/ ReadEmailsSteady
     \/ ClassifyOutcome
  /\ UNCHANGED besideReplies

SpecReply == Init /\ [][ReplyNext]_vars

\* check_email_replies_loop keeps ticking and every external call of a reply
\* tick returns or fails
SpecReplyFair ==
  /\ Init /\ [][ReplyNext]_vars
  /\ WF_vars(CheckRepliesAgain /\ UNCHANGED besideReplies)
  /\ WF_vars(ReadEmailsSteady /\ UNCHANGED besideReplies)
  /\ WF_vars(ClassifyOutcome /\ UNCHANGED besideReplies)

\* the event loop runs every task that can run, every external call in flight
\* returns or fails, and every wait_for times out
SpecLoopsFair ==
  /\ Init /\ [][LoopsNext]_vars
  /\ \A l \in Loops :
        /\ WF_vars(LoopTest(l) /\ UNCHANGED besideLoops)
        /\ WF_vars(TickStep(l) /\ UNCHANGED besideLoops)
        /\ WF_vars(DelayEnd(l) /\ UNCHANGED besideLoops)
  /\ WF_vars(GatherReturn /\ UNCHANGED besideLoops)

\* ------------------------------------------------------------------ claims

Distinct(s) == \A i, j \in 1..Len(s) : i # j => s[i] # s[j]

\* C1: whatever the reply ticks fetched and whatever the classify agent
\* returned, no two entries of the reply log carry the same email_id, and no
\* email_id was handed to the classify agent twice.
C1_AtMostOnce ==
  /\ Distinct([i \in 1..Len(replies) |-> replies[i].email_id])
  /\ Distinct(classified)

\* a later tick fetched the same unlogged answered email twice in one list and
\* logged it once, next to the entry of an earlier tick
C1_Witness ==
  /\ rticks >= 2
  /\ rresult = "returned"
  /\ Len(inbox) = 2
  /\ inbox[1] = inbox[2]
  /\ inbox[1].text
  /\ lenBefore = 1
  /\ Len(replies) = 2
  /\ replies[1].email_id = inbox[1].email_id

\* C2 as stated: a reply tick that fetched the very list the reply tick before
\* it fetched leaves the reply log as long as it found it.
C2_ReplayIdempotent == replayed => Len(replies) = lenBefore

\* C3 as stated: the matching loop never issues a second outreach to a candidate
\* for a job it has already sent that candidate an outreach for.
C3_NoDuplicateOutreach == Distinct(sent)

\* C4: after any calls of update_job_availability every job is filled exactly
\* when its candidate_ids is non-empty.
C4_JobInvariant ==
  \A i \in 1..Len(jobsFile) :
    (jobsFile[i].status = "filled") <=> (Len(jobsFile[i].candidate_ids) > 0)

\* the calls made end with one that asks to fill an existing job and passes no
\* candidate id
C4_Witness ==
  /\ jcalls = MaxJobCalls
  /\ JobIndex(jobsFile, lastCall.job_id) # 0
  /\ lastCall.filled
  /\ lastCall.candidate_id = NoCandidate
  /\ lastCall.returned = "AttributeError"

\* C5 as stated: the step that logs a reply classified interested leaves the job of the
\* reply filled with the candidate's id in candidate_ids (appended at the end
\* unless already there); the step that logs a reply classified rejected leaves
\* that job unfilled with candidate_ids empty.
C5_ReplyTransition ==
  [][Len(replies') = Len(replies) + 1 =>
       LET r == replies'[1]
           j == JobIndex(jobsFile, r.jobId)
       IN  j # 0 =>
             /\ r.classification = W_interested =>
                   /\ jobsFile'[j].status = "filled"
                   /\ jobsFile'[j].candidate_ids =
                        IF InSeq(r.candidate_id, jobsFile[j].candidate_ids)
                        THEN jobsFile[j].candidate_ids
                        ELSE Append(jobsFile[j].candidate_ids, r.candidate_id)
             /\ r.classification = W_rejected =>
                   /\ jobsFile'[j].status = "unfilled"
                   /\ jobsFile'[j].candidate_ids = <<>>
  ]_vars

\* a letter and its capital
CasePairs ==
  {<<"i","I">>, <<"n","N">>, <<"t","T">>, <<"e","E">>, <<"r","R">>,
   <<"s","S">>, <<"d","D">>}

SameLetter(c, l) == c = l \/ <<l, c>> \in CasePairs

\* the letters of "interested" occur in a row in tok, in either case
HasInterested(tok) ==
  \E k \in 0..(Len(tok) - Len(W_interested)) :
     \A i \in 1..Len(W_interested) : SameLetter(tok[k + i], W_interested[i])

\* C6: available is true exactly for the tokens that hold "interested" in
\* either case: true for "Interested!", false for "Not sure" and "REJECTED".
C6_ClassificationMapping ==
  evaluated =>
    /\ available = HasInterested(token)
    /\ (token = W_Interested \o W_bang) => available
    /\ (token = W_Not_sure) => ~available
    /\ (token = W_REJECTED) => ~available

\* the rule has run on "Interested!" and said available
C6_Witness ==
  /\ evaluated
  /\ token = W_Interested \o W_bang
  /\ available

\* the positions of proposed whose name resolves to a candidate
Resolving == {i \in 1..Len(proposed) : CandidateIndexByName(stateCandidates, proposed[i]) # 0}

\* C7: for the proposed match at hand, resolved to candidate c, the step that
\* records the outreach issues one dispatch, addressed to c, and leaves the
\* persisted c requested for the tick's job with one more message; and a tick
\* that ran to its end has completed one dispatch per resolving match.
C7_MatchingTransition ==
  /\ []((mpc = "idle" /\ mresult = "returned") => n_sent = Cardinality(Resolving))
  /\ [][Len(sent') # Len(sent) =>
          LET c == stateCandidates[CandidateIndexByName(stateCandidates, proposed[mi])].candidate_id
              k == CandidateIndex(candFile, c)
          IN  /\ sent' = Append(sent, [candidate_id |-> c, job_id |-> currentJob])
              /\ k # 0
              /\ candFile'[k].candidate_id = c
              /\ candFile'[k].status = "requested"
              /\ candFile'[k].job_id = currentJob
              /\ Len(candFile'[k].messages) = Len(candFile[k].messages) + 1
     ]_vars

\* the second resolving match of one tick has been recorded and dispatched
C7_Witness ==
  /\ mpc = "sending"
  /\ n_sent = 1
  /\ Len(sent) = 2
  /\ \E k \in 1..Len(candFile) :
        /\ candFile[k].candidate_id = sent[2].candidate_id
        /\ candFile[k].status = "requested"
        /\ candFile[k].job_id = currentJob
        /\ Len(candFile[k].messages) = 2

\* C8 as stated: with an empty job set a matching tick raises nothing, invokes no
\* agent, dispatches nothing and changes no match state.
C8_EmptyJobSetNoOp ==
  Len(stateJobs) = 0 =>
    /\ mresult \in {"none", "returned"}
    /\ mpc = "idle"
    /\ sent = <<>>
    /\ matches = <<>>
    /\ currentMatches = <<>>

\* C9 as stated: no exception leaves a reply tick for an answered email whose
\* candidate_id resolves to no candidate, and a tick that ran to its end has
\* logged every answered email that follows such an email in its list.
C9_UnresolvedSkipped ==
  /\ rresult # "TypeError"
  /\ (rpc = "idle" /\ rresult = "returned") =>
        \A g, i \in 1..Len(inbox) :
          (/\ g < i
           /\ inbox[g].text
           /\ CandidateIndex(stateCandidates, inbox[g].candidate_id) = 0
           /\ inbox[i].text)
            => Processed(replies, inbox[i].email_id)

\* C10 as stated: the session of the shared client is established at most once.
C10_SessionOnce == sessions <= 1

\* C11: a process_query call whose first completion asked for k tool calls has
\* made k call_tool requests and 1 + k get_completion requests when it returns,
\* one of them (the first) with the tools; at no point has it made more, whatever
\* tool calls its follow-up completions carried, and it makes no request beyond
\* list_tools, the first completion and two per tool call.
C11_SingleRound ==
  /\ qpc = "returned" =>
        /\ n_tool = requested
        /\ n_completion = 1 + requested
        /\ n_manifest = 1
  /\ n_tool <= requested
  /\ n_completion <= 1 + n_tool
  /\ n_manifest <= 1
  /\ Len(calls) <= 2 + 2 * requested

\* a call that ran two tool calls has returned after three completions, though a
\* follow-up completion asked for more tool calls
C11_Witness ==
  /\ qpc = "returned"
  /\ requested = 2
  /\ n_tool = 2
  /\ n_completion = 3
  /\ followupAsked

\* C12 as stated: a process_query call in which an external request failed does
\* not return text, with either backend, and no request of a call is made twice.
C12_FailureSurfaces ==
  /\ (qpc = "returned" => failure = "none")
  /\ Distinct(calls)

\* C13: once the stop event is set no loop begins a tick, and a tick that is in
\* flight stays in flight until it returns or raises into the wait of its loop:
\* nothing takes it out of its awaits.
C13_PolledBetweenTicks ==
  [][stop_event =>
       \A l \in Loops :
          /\ tickBit'[l] = tickBit[l]
          /\ lpc[l] = "tick" => lpc'[l] \in {"tick", "delay"}
          /\ lpc[l] # "tick" => lpc'[l] # "tick"
  ]_vars

\* the event was set while check_jobs was in flight and the other loop was not;
\* both tasks are done and gather has returned
C13_Witness ==
  /\ lifespan_pc = "stopped"
  /\ inflightAtStop = {"check_jobs_loop"}

\* C14: when every external call in flight returns or fails, setting the stop
\* event leads to both loop tasks done and the gather of lifespan returned.
C14_ShutdownLiveness == stop_event ~> (lifespan_pc = "stopped" /\ \A l \in Loops : lpc[l] = "done")

\* the event was set while both ticks were in flight, and gather has returned
C14_Witness ==
  /\ lifespan_pc = "stopped"
  /\ inflightAtStop = Loops
  /\ \A l \in Loops : lpc[l] = "done"

\* the step of loop l in which its tick raises
TickRaised(l) ==
  /\ outcome'[l] = "raised"
  /\ \/ lpc[l] = "tick" /\ lpc'[l] # "tick"
     \/ tickBit'[l] # tickBit[l] /\ lpc'[l] # "tick"

\* C15: a tick that raises leaves its loop in the wait between ticks; a loop ends
\* only with the stop event set; and from the wait after a raised tick the loop
\* begins another tick unless the stop event is set.
C15_RaisedTickContinues ==
  /\ [](\A l \in Loops : lpc[l] = "done" => stop_event)
  /\ [][\A l \in Loops : TickRaised(l) => lpc'[l] = "delay"]_vars
  /\ \A l \in Loops, b \in {0, 1} :
        (lpc[l] = "delay" /\ outcome[l] = "raised" /\ tickBit[l] = b)
          ~> (stop_event \/ tickBit[l] # b)

\* a tick is in flight in a loop whose tick before it raised
C15_Witness ==
  /\ ~stop_event
  /\ \E l \in Loops : lpc[l] = "tick" /\ outcome[l] = "raised"

\* C16 as stated: the status, job_id and messages of a persisted candidate
\* change only in writes of the orchestration engine.
C16_ExclusiveOwnership ==
  [][(\E k \in 1..Len(candFile) :
         \/ candFile'[k].status # candFile[k].status
         \/ candFile'[k].job_id # candFile[k].job_id
         \/ candFile'[k].messages # candFile[k].messages)
       => writer' = "engine"
  ]_vars

\* C17 as stated: at every moment get_state can be served, the jobs and the
\* candidates of the state it returns equal the persisted collections.
C17_MirrorFresh ==
  /\ stateJobs = GetList(jobsFile)
  /\ stateCandidates = GetList(candFile)

\* C18 as stated: GET /emails without a candidate_id returns every stored email.
C18_FullList == (listed /\ listFilter = NoCandidate) => listing = emailsFile

\* C19 as stated: for a text t that is a JSON document, parsing t inside a fenced
\* code block gives what parsing t gives.
C19_RoundTrip ==
  (parsedBoth /\ JsonLoads(text) # JSONDecodeError) => wrappedResult = plainResult

\* what the agent that has finished got from process_query and the parser
AgentParsed ==
  IF qpc = "raised" THEN JSONDecodeError ELSE parse_json_from_response(Join(final_text))

C21_DispatchFirst ==
  [][ (mpc = "drafting" /\ mpc' = "sending") => candFile' = candFile ]_vars

\* C22: a match whose draft came back empty is still persisted as requested with
\* the id of the job at hand; a dispatch that failed changes no record, leaves
\* the tick running or returned, and moves it past that match; a dispatch is
\* issued only by the step that follows the draft, one at a time.
C22_DegradedStepsGoOn ==
  [][ /\ (mpc = "drafting" /\ mpc' = "sending"
             /\ currentMatches'[1].sent_email = "empty")
         => LET k == CandidateIndex(candFile', mcand)
            IN  /\ k # 0
                /\ candFile'[k].status = "requested"
                /\ candFile'[k].job_id = currentJob
                /\ Len(sent') = Len(sent) + 1
      /\ (Len(dispatched') > Len(dispatched)
             /\ dispatched'[Len(dispatched')] = "failed")
         => /\ candFile' = candFile
            /\ sent' = sent
            /\ mi' > mi
            /\ mpc' \in {"drafting", "idle"}
            /\ mresult' \in {"running", "returned"}
            /\ LET k == CandidateIndex(candFile, mcand)
               IN  k # 0 /\ candFile[k].status = "requested"
                         /\ candFile[k].job_id = currentJob
      /\ sent' # sent
         => /\ mpc = "drafting"
            /\ sent' = Append(sent, [candidate_id |-> mcand, job_id |-> currentJob])
    ]_vars

\* a tick dispatched twice, the first dispatch failed on an empty draft
C22_Witness ==
  /\ mticks = 1
  /\ mresult = "returned"
  /\ Len(dispatched) = 2
  /\ dispatched[1] = "failed"
  /\ Len(currentMatches) = 2
  /\ currentMatches[2].sent_email = "empty"
  /\ \E k \in 1..Len(candFile) : candFile[k].status = "requested"

\* C23: a tick whose find_candidates_agent failed ends at once, returned, having
\* changed no candidate record, issued no dispatch and logged no match; a tick
\* that starts after it runs as any other.
C23_FailedProposalEndsTick ==
  [][ (Len(pfail') > Len(pfail) /\ pfail'[Len(pfail')])
         => /\ candFile' = candFile
            /\ stateCandidates' = stateCandidates
            /\ sent' = sent
            /\ matches' = matches
            /\ currentMatches' = <<>>
            /\ mpc' = "idle"
            /\ mresult' = "returned"
            /\ n_sent' = 0
    ]_vars

\* the tick after a failed one dispatched
C23_Witness ==
  /\ pfail = <<TRUE, FALSE>>
  /\ mticks = 2
  /\ mresult = "returned"
  /\ Len(sent) = 1
  /\ Len(matches) = 1

\* C24 as stated: an email the fetch keeps returning, which carries response
\* text and whose candidate_id resolves to a candidate record with a job, is
\* eventually in the reply log, whatever else is in the fetched list.
C24_ReplyLiveness ==
  \A e \in InboundPool :
    (/\ InSeq(e, steady)
     /\ e.text
     /\ LET c == CandidateIndex(candFile, e.candidate_id)
        IN  c # 0 /\ candFile[c].job_id # NoKey)
      ~> Processed(replies, e.email_id)

W_unclear == <<"u","n","c","l","e","a","r">>

\* C25 as stated: the step in which classify_email_agent returns after a failure
\* raises nothing, logs the email with the token "unclear", leaves its job
\* unfilled and runs on to the next email.
C25_FailureLoggedUnclear ==
  [][ (rpc = "classifying" /\ rpc' # rpc /\ cfailed')
         => /\ Len(replies') = Len(replies) + 1
            /\ replies'[1].email_id = inbox[ri].email_id
            /\ replies'[1].classification = W_unclear
            /\ LET j == JobIndex(jobsFile', rjob)
               IN  j # 0 => jobsFile'[j].status = "unfilled"
            /\ ri' > ri
    ]_vars

\* the text of a returned process_query call as json.loads gets it
Answer == Strip(CleanMarkdown(FenceContent(ToolCallRest(Join(final_text)))))

ClassifyReturned ==
  /\ apc = "finished"
  /\ agent = "classify_email_agent"
  /\ qpc = "returned"

\* C26: a classify_email_agent call whose answer is not a single word returns a
\* string, and that string fails the interested test: available is false.
C26_NotSingleWordUnavailable ==
  (ClassifyReturned /\ WordCount(Answer) # 1)
    => /\ aresult.type = "str"
       /\ ~IsAvailable(aresult.val)

\* the answer was "not interested", quoted
C26_Witness ==
  /\ ClassifyReturned
  /\ final_text = << <<QUOTE>> \o W_not_interested \o <<QUOTE>> >>
  /\ aresult.val = W_not_clear
  /\ ~IsAvailable(aresult.val)

\* C27 as stated: a classify_email_agent call whose answer is the bare word
\* interested returns interested, which passes the interested test.
C27_BareWordReturned ==
  (ClassifyReturned /\ final_text = <<W_interested>>)
    => /\ aresult.val = Lower(W_interested)
       /\ IsAvailable(aresult.val)

IsAnnouncement(fragment) == fragment \in {<<PREAMBLE>>, <<PREAMBLE_ARGS>>}

\* C28 as stated: when process_query returned tool-call lines followed by
\* content that parses, the parser returns for the whole text what it returns
\* for that content.
C28_PreambleRemoved ==
  LET n == Len(final_text)
  IN  (/\ qpc = "returned"
       /\ n >= 2
       /\ \A i \in 1..(n - 1) : IsAnnouncement(final_text[i])
       /\ ~IsAnnouncement(final_text[n])
       /\ parse_json_from_response(final_text[n]) # JSONDecodeError)
        => parse_json_from_response(Join(final_text))
             = parse_json_from_response(final_text[n])

\* the fragments the return value is to be made of: the text of the only
\* completion, or the line and the follow-up text of each tool call in turn
RECURSIVE ExpectedFragments(_, _, _)
ExpectedFragments(tcs, txts, i) ==
  IF tcs = <<>> THEN WithText(<<>>, txts[1])
  ELSE IF i > Len(tcs) THEN <<>>
  ELSE <<Announcement(tcs[i])>> \o WithText(<<>>, txts[i + 1])
         \o ExpectedFragments(tcs, txts, i + 1)

\* C29: a returned process_query call returns the text of its first completion
\* when that asked for no tool call, and otherwise the lines and the follow-up
\* texts of the tool calls, in the order the calls were asked for.
C29_ReturnValue ==
  qpc = "returned"
    => /\ Len(texts) = 1 + Len(tool_calls)
       /\ tool_calls = <<>> => Join(final_text) = texts[1]
       /\ Join(final_text) = Join(ExpectedFragments(tool_calls, texts, 1))

\* two tool calls, the first completion carried text of its own
C29_Witness ==
  /\ qpc = "returned"
  /\ tool_calls = <<"args", "noargs">>
  /\ texts = << <<LETTER>>, <<LBRACK, RBRACK>>, <<DIGIT>> >>
  /\ final_text = << <<PREAMBLE_ARGS>>, <<LBRACK, RBRACK>>, <<PREAMBLE>>, <<DIGIT>> >>

\* C30: of each loop at most one tick has begun and neither returned nor raised,
\* however many external calls it still awaits; a loop stands in its tick
\* exactly while that tick is in flight.
C30_NoOverlap ==
  \A l \in Loops :
    /\ inflight[l] <= 1
    /\ inflight[l] = 1 <=> lpc[l] = "tick"
    /\ inflight[l] = 0 => pending[l] = 0

\* both loops in flight at once, each in a tick that is not its first and that
\* awaits external calls
C30_Witness ==
  \A l \in Loops :
    /\ inflight[l] = 1
    /\ tickBit[l] = 0
    /\ pending[l] = MaxAwaits

\* the event loop runs loop l whenever it can run and the external calls of its
\* ticks return or fail; nothing is assumed of the other loop
LoopIsServed(l) ==
  /\ WF_vars(LoopTest(l) /\ UNCHANGED besideLoops)
  /\ WF_vars(TickStep(l) /\ UNCHANGED besideLoops)
  /\ WF_vars(DelayEnd(l) /\ UNCHANGED besideLoops)

\* C31: a loop that is served keeps starting ticks and ending them until the
\* stop event is set, also when the tick of the other loop stays suspended in
\* an external call for ever.
C31_LoopIndependence ==
  \A l \in Loops :
    LoopIsServed(l) =>
      /\ [](tickBit[l] = 0 => <>(tickBit[l] = 1 \/ stop_event))
      /\ [](tickBit[l] = 1 => <>(tickBit[l] = 0 \/ stop_event))
      /\ [](lpc[l] = "tick" => <>(lpc[l] = "delay"))

\* check_email_replies_loop has ended a tick that was not its first, while a
\* tick of check_jobs_loop still awaits every one of its external calls
C31_Witness ==
  /\ ~stop_event
  /\ lpc["check_jobs_loop"] = "tick"
  /\ pending["check_jobs_loop"] = MaxAwaits
  /\ tickBit["check_jobs_loop"] = 1
  /\ lpc["check_email_replies_loop"] = "delay"
  /\ tickBit["check_email_replies_loop"] = 0
  /\ outcome["check_email_replies_loop"] = "returned"

\* C32 as stated: after a call of update_job_availability that reports the
\* interested reply of a candidate for an existing job, the candidate's id
\* occurs once in the job's candidate_ids; and no id ever occurs twice there.
C32_UniqueMembership ==
  /\ \A i \in 1..Len(jobsFile) : Distinct(jobsFile[i].candidate_ids)
  /\ LET j == JobIndex(jobsFile, lastCall.job_id)
     IN  (j # 0 /\ lastCall.filled /\ Truthy(lastCall.candidate_id))
           => Cardinality({k \in 1..Len(jobsFile[j].candidate_ids) :
                             jobsFile[j].candidate_ids[k] = lastCall.candidate_id}) = 1

\* the email of this id as the list holds it
StoredEmail(data, email_id) == data[EmailIndex(data, email_id)]

MailIds(data) == {data[i].email_id : i \in 1..Len(data)}

\* C33: over the sends, the marks and the saved responses of the people
\* server, an email that is read stays in the file and stays read.
C33_ReadMonotonic ==
  [][\A id \in MailIds(mailFile) :
        StoredEmail(mailFile, id).read
          => (id \in MailIds(mailFile') /\ StoredEmail(mailFile', id).read)]_vars

C33_Witness ==
  /\ Len(mailFile) = MaxEmails
  /\ mailFile[1].read /\ mailFile[1].response = NoResponse
  /\ mailFile[2].read /\ mailFile[2].response # NoResponse
  /\ ppc = "idle"

\* C34 as stated: the one change a stored email undergoes is the one that
\* stores its reply; an email without a reply is as it was created.
C34_OnlyReplyChanges ==
  [][\A id \in MailIds(mailFile) :
        (id \in MailIds(mailFile') /\ StoredEmail(mailFile', id) # StoredEmail(mailFile, id))
          => /\ StoredEmail(mailFile, id).response = NoResponse
             /\ StoredEmail(mailFile', id).response # NoResponse
             /\ StoredEmail(mailFile, id).read = FALSE]_vars

\* C40: an email the route stored stays in the file as the route stored it,
\* whatever the poll loop marks and saves afterwards; only its flag and its
\* response change.
C40_NoStoredEmailLost ==
  [][\A id \in MailIds(mailFile) :
        /\ id \in MailIds(mailFile')
        /\ StoredEmail(mailFile', id).candidate_id = StoredEmail(mailFile, id).candidate_id
        /\ StoredEmail(mailFile, id).response # NoResponse
             => StoredEmail(mailFile', id).response = StoredEmail(mailFile, id).response]_vars

C40_Witness ==
  /\ ppc = "idle"
  /\ \E id \in storedDuring : id \in MailIds(mailFile)
  /\ \E id \in MailIds(mailFile) \ storedDuring :
        StoredEmail(mailFile, id).response # NoResponse
  /\ Len(plist) < Len(mailFile)

\* C35 as stated: a call of update_job_availability with an id that matches no
\* job returns False; it raises nothing.
C35_LookupMissReturnsFalse ==
  (lastCall.returned # "nothing" /\ JobIndex(jobsFile, lastCall.job_id) = 0)
    => lastCall.returned = "False"

\* C36 as stated: when a reply is logged for the email that was the e-th
\* outreach email dispatched, and that outreach went to the replying candidate,
\* the reply carries the job that outreach was sent for.
C36_ReplyGoesToDispatchJob ==
  [][Len(replies') > Len(replies)
       => LET r == replies'[1]
              e == r.email_id
          IN  (e <= Len(sent) /\ sent[e].candidate_id = r.candidate_id)
                => r.jobId = sent[e].job_id]_vars

\* C37 as stated: the reply logged last, when it was classified as interested
\* and its job exists, has its transition in the job file: the job is filled
\* and lists the candidate.
C37_LoggedIsPersisted ==
  replies # <<>> =>
    LET r == replies[1]
        j == JobIndex(jobsFile, r.jobId)
    IN  (j # 0 /\ IsAvailable(r.classification))
          => /\ jobsFile[j].status = "filled"
             /\ InSeq(r.candidate_id, jobsFile[j].candidate_ids)

\* a step of check_candidates_replies: its start, the return of read_emails or
\* the return of classify_email_agent
ReplyStep == <<rpc, rticks, replies>>' # <<rpc, rticks, replies>>

\* status and job_id of every record of a candidate list
StatusAndJob(cands) ==
  [i \in 1..Len(cands) |-> <<cands[i].candidate_id, cands[i].status, cands[i].job_id>>]

\* C39: a step of a reply tick changes no candidate's status or job_id, in the
\* file or in the mirror; it leaves the messages of every candidate other than
\* the replying one, every job other than the reply's job, and the state of the
\* matching loop as they were.
C39_ReplyTickFrame ==
  [][ReplyStep =>
        /\ StatusAndJob(candFile') = StatusAndJob(candFile)
        /\ StatusAndJob(stateCandidates') = StatusAndJob(stateCandidates)
        /\ \A i \in 1..Len(candFile) :
              candFile'[i].messages # candFile[i].messages
                => (Len(replies') > Len(replies)
                    /\ candFile[i].candidate_id = replies'[1].candidate_id)
        /\ Len(jobsFile') = Len(jobsFile)
        /\ \A j \in 1..Len(jobsFile) :
              jobsFile'[j] # jobsFile[j]
                => (Len(replies') > Len(replies) /\ jobsFile[j].job_id = replies'[1].jobId)
        /\ UNCHANGED <<currentJob, currentMatches, matches, sent>>]_vars

C39_Witness ==
  /\ replies # <<>>
  /\ rpc = "idle"
  /\ JobIndex(jobsFile, replies[1].jobId) # 0
  /\ \E i \in 1..Len(candFile) :
        /\ candFile[i].candidate_id = replies[1].candidate_id
        /\ candFile[i].status = "requested"
        /\ candFile[i].job_id = replies[1].jobId

\* C38 as stated: the save of the people server's store leaves in the file what
\* the matching loop persisted in the fields the server does not write: the
\* job_id and the messages of every candidate.
C38_NoLostUpdate ==
  [][(srvPc = "saving" /\ srvPc' = "idle")
       => \A i \in 1..Len(candFile) :
             /\ candFile'[i].job_id = candFile[i].job_id
             /\ candFile'[i].messages = candFile[i].messages]_vars
====
